---- MODULE Spec2Model ----
(***************************************************************************)
(* The Apollo guidance computer overload controller (sarun2000/Apollo).    *)
(*                                                                         *)
(* Four scripts carry one AGCSystem class each: apollo_agc_v1.py,          *)
(* apollo_agc_v2.py, apollo_agc_v3.py and agc_console.py.  A control cycle *)
(* is check_system_load() followed by recover_and_prioritize().            *)
(*                                                                         *)
(* Load samples are floats with one decimal in the source; here a sample   *)
(* is the integer number of tenths (1.0 is 10, 1.5 is 15), so the          *)
(* comparison `load > 1.0` is `load > 10`.                                 *)
(***************************************************************************)
EXTENDS Integers, Sequences, FiniteSets, TLC

VARIABLES
    agc,      \* agc_console.py: the AGCSystem object the console drives
    load,     \* agc_console.py: AGCMissionConsole.load (set by _update_logic)
    state,    \* agc_console.py: AGCMissionConsole.state (set by _update_logic)
    agc_v1,   \* apollo_agc_v1.py: the AGCSystem object
    agc_v2,   \* apollo_agc_v2.py: the AGCSystem object
    agc_v3,   \* apollo_agc_v3.py: the AGCSystem object
    trace,    \* observer: one record per evaluated cycle of the console controller
    calm,     \* load source: TRUE once it supplies only samples <= 1.0
    twin,     \* agc_console.py: a second run of the console controller
    gui       \* agc_console.py: the AGCMissionConsole window and its timers

vars == <<agc, load, state, agc_v1, agc_v2, agc_v3, trace, calm, twin, gui>>

----------------------------------------------------------------------------
(* Bounds of the model *)

\* Number of cycles driven from the fresh controller.
MaxCycle == 5

\* Number of further cycles, all with load <= 1.0, driven in the calm phase
\* of SpecHeal.
MaxCalm == 6

\* Number of _tick callbacks scheduled with after() at one time (SpecGUI).
MaxPending == 3

----------------------------------------------------------------------------
(* Program constants *)

\* `load > 1.0` in check_system_load, in tenths.
OverloadThreshold == 10

\* `task["priority"] <= 2` in recover_and_prioritize.
CriticalThreshold == 2

\* The task roster of AGCSystem.__init__ (the same in the four scripts).
TaskNames == {"landing_guidance", "radar_tracking", "telemetry", "camera_recording"}

TaskPriority ==
    [n \in TaskNames |->
        CASE n = "landing_guidance" -> 1
          [] n = "radar_tracking"   -> 2
          [] n = "telemetry"        -> 3
          [] n = "camera_recording" -> 4]

\* The values simulate_sensor_load draws from, in tenths.
simulate_sensor_load    == {6, 8, 10, 12, 15, 18, 20}
simulate_sensor_load_v1 == {5, 7, 10, 15, 20}
simulate_sensor_load_v2 == {6, 8, 10, 13, 16, 20}
simulate_sensor_load_v3 == {6, 8, 10, 12, 15, 20}

\* The samples a cycle is fed.  check_system_load takes its sample from
\* simulate_sensor_load, which a test replaces by a sequence of its own.  The
\* set holds samples the scripts draw on either side of 1.0 and at 1.0
\* itself (5, 8, 10, 12, 15, 20), and two that no script draws: 9, and 25,
\* which is above the 2.0 the displays clamp to.
LoadSamples == {5, 8, 9, 10, 12, 15, 20, 25}

\* AGCMissionConsole.__init__ assigns neither self.state nor self.load;
\* _update_logic is the first to.  Unset stands for the label not assigned
\* yet, NoLoad (no sample is negative) for the sample not assigned yet.
Unset == "UNSET"
NoLoad == -1

----------------------------------------------------------------------------
(* agc_console.py: AGCSystem *)

AGCSystem_init ==
    [tasks          |-> [n \in TaskNames |->
                            [priority |-> TaskPriority[n], active |-> TRUE, blink |-> FALSE]],
     error_flag     |-> FALSE,
     overload_count |-> 0,
     cycle          |-> 0,
     running        |-> FALSE]

\* Variants of check_system_load, each with one slip; the properties below
\* that rest on check_system_load fail when it is replaced by one of them.
\* The floor is forgotten: the counter is decremented even at 0.
check_system_load_no_floor(self, ld) ==
    IF ld > OverloadThreshold
    THEN [self EXCEPT !.error_flag = TRUE, !.overload_count = @ + 1]
    ELSE [self EXCEPT !.error_flag = FALSE, !.overload_count = @ - 1]

\* The cooldown is forgotten: the counter is never decremented.
check_system_load_no_cooldown(self, ld) ==
    IF ld > OverloadThreshold
    THEN [self EXCEPT !.error_flag = TRUE, !.overload_count = @ + 1]
    ELSE [self EXCEPT !.error_flag = FALSE]

\* The counter is cleared, not decremented, by a non-overloaded cycle.
check_system_load_reset(self, ld) ==
    IF ld > OverloadThreshold
    THEN [self EXCEPT !.error_flag = TRUE, !.overload_count = @ + 1]
    ELSE [self EXCEPT !.error_flag = FALSE, !.overload_count = 0]

\* The counter weighs the sample: a sample above 2.0 counts twice.
check_system_load_weighted(self, ld) ==
    IF ld > OverloadThreshold
    THEN [self EXCEPT !.error_flag = TRUE,
                      !.overload_count = IF ld > 2 * OverloadThreshold THEN @ + 2 ELSE @ + 1]
    ELSE [self EXCEPT !.error_flag = FALSE,
                      !.overload_count = IF @ > 0 THEN @ - 1 ELSE @]

\* The comparison is `>=` instead of `>`.
check_system_load_ge(self, ld) ==
    IF ld >= OverloadThreshold
    THEN [self EXCEPT !.error_flag = TRUE, !.overload_count = @ + 1]
    ELSE [self EXCEPT !.error_flag = FALSE,
                      !.overload_count = IF @ > 0 THEN @ - 1 ELSE @]

\* check_system_load with the sample `ld` drawn by simulate_sensor_load.
\* The sample itself is the return value; the operator gives the object.
check_system_load(self, ld) ==
    IF ld > OverloadThreshold
    THEN [self EXCEPT !.error_flag = TRUE, !.overload_count = @ + 1]
    ELSE [self EXCEPT !.error_flag = FALSE,
                      !.overload_count = IF @ > 0 THEN @ - 1 ELSE @]

\* Variants of recover_and_prioritize, each with one slip.
\* The overload branch, keeping the tasks of the set `keep` active.
OverloadBranch(self, keep) ==
    [self |-> [self EXCEPT !.tasks =
                  [n \in TaskNames |->
                      [priority |-> self.tasks[n].priority,
                       active   |-> n \in keep,
                       blink    |-> n \notin keep]]],
     ret  |-> "OVERLOAD"]

ResumeBranch(self, label) ==
    [self |-> [self EXCEPT !.tasks =
                  [n \in TaskNames |->
                      [priority |-> self.tasks[n].priority,
                       active   |-> TRUE,
                       blink    |-> FALSE]]],
     ret  |-> label]

\* `priority < 2` instead of `priority <= 2`.
recover_and_prioritize_lt(self) ==
    LET keep == {n \in TaskNames : self.tasks[n].priority < CriticalThreshold}
    IN  IF self.error_flag THEN OverloadBranch(self, keep)
        ELSE IF self.overload_count = 0 THEN ResumeBranch(self, "STABLE")
        ELSE [self |-> self, ret |-> "COOLDOWN"]

\* `priority <= 3` instead of `priority <= 2`.
recover_and_prioritize_le3(self) ==
    LET keep == {n \in TaskNames : self.tasks[n].priority <= CriticalThreshold + 1}
    IN  IF self.error_flag THEN OverloadBranch(self, keep)
        ELSE IF self.overload_count = 0 THEN ResumeBranch(self, "STABLE")
        ELSE [self |-> self, ret |-> "COOLDOWN"]

\* The label of apollo_agc_v3.py: every non-overloaded cycle is reported
\* STABLE, the tasks resumed only at overload_count = 0.
recover_and_prioritize_label(self) ==
    LET keep == {n \in TaskNames : self.tasks[n].priority <= CriticalThreshold}
    IN  IF self.error_flag THEN OverloadBranch(self, keep)
        ELSE IF self.overload_count = 0 THEN ResumeBranch(self, "STABLE")
        ELSE [self |-> self, ret |-> "STABLE"]

\* No hysteresis: every non-overloaded cycle resumes the tasks.
recover_and_prioritize_no_hysteresis(self) ==
    LET keep == {n \in TaskNames : self.tasks[n].priority <= CriticalThreshold}
    IN  IF self.error_flag THEN OverloadBranch(self, keep)
        ELSE IF self.overload_count = 0 THEN ResumeBranch(self, "STABLE")
        ELSE ResumeBranch(self, "COOLDOWN")

\* A toggle: an overloaded cycle flips the degradable tasks instead of
\* deriving them from the priority.
recover_and_prioritize_toggle(self) ==
    LET keep == {n \in TaskNames : self.tasks[n].priority <= CriticalThreshold \/ ~self.tasks[n].active}
    IN  IF self.error_flag THEN OverloadBranch(self, keep)
        ELSE IF self.overload_count = 0 THEN ResumeBranch(self, "STABLE")
        ELSE [self |-> self, ret |-> "COOLDOWN"]

\* recover_and_prioritize: the object after the call and the returned label.
\* The loop of the overload branch visits the tasks by priority and writes
\* each task from its own priority alone, so the order does not show.
recover_and_prioritize(self) ==
    IF self.error_flag
    THEN [self |-> [self EXCEPT !.tasks =
                        [n \in TaskNames |->
                            [priority |-> self.tasks[n].priority,
                             active   |-> self.tasks[n].priority <= CriticalThreshold,
                             blink    |-> ~(self.tasks[n].priority <= CriticalThreshold)]]],
          ret  |-> "OVERLOAD"]
    ELSE IF self.overload_count = 0
    THEN [self |-> [self EXCEPT !.tasks =
                        [n \in TaskNames |->
                            [priority |-> self.tasks[n].priority,
                             active   |-> TRUE,
                             blink    |-> FALSE]]],
          ret  |-> "STABLE"]
    ELSE [self |-> self, ret |-> "COOLDOWN"]

\* _update_logic with one slip: the cycle is not counted.
_update_logic_no_count(self, ld) ==
    LET result == recover_and_prioritize(check_system_load(self, ld))
    IN  [agc |-> result.self, load |-> ld, state |-> result.ret]

\* AGCMissionConsole._update_logic with the sample `ld`: the AGCSystem
\* object, self.load and self.state after the call.
_update_logic(self, ld) ==
    LET counted == [self EXCEPT !.cycle = @ + 1]
        checked == check_system_load(counted, ld)
        result  == recover_and_prioritize(checked)
    IN  [agc |-> result.self, load |-> ld, state |-> result.ret]

----------------------------------------------------------------------------
(* agc_console.py: AGCMissionConsole *)

\* The window when __init__ has run _build_ui and is about to make the first
\* paint: the StringVars and labels as _build_ui creates them, no timer
\* scheduled.  cycle_var holds the number n of the text "Cycle: n".
AGCMissionConsole_init ==
    [pc               |-> "init",
     raised           |-> FALSE,
     pending          |-> 0,
     last_blink_state |-> FALSE,
     cycle_var        |-> 0,
     state_var        |-> "State: INIT",
     alert_var        |-> "",
     load_fill        |-> "#60a5fa",
     stat             |-> [n \in TaskNames |-> ""]]

\* The text _update_ui shows for self.state.  Before _update_logic has
\* assigned it, self.state is the method Wm.state of the Tk window, which
\* the lookup table does not hold and the f-string prints as it is.  (The
\* three labels carry a glyph in the source.)
StateText(st) ==
    CASE st = "OVERLOAD" -> "State: /!/ OVERLOAD"
      [] st = "COOLDOWN" -> "State: ... COOL-DOWN"
      [] st = "STABLE"   -> "State: [v] STABLE"
      [] st = Unset      -> "State: <bound method Wm.wm_state>"

\* The fill of the load bar: the sample clamped to 0.0 .. 2.0, green up to
\* 1.0, amber up to 1.5, red above.
LoadFill(ld) ==
    LET clamped == IF ld < 0 THEN 0 ELSE IF ld > 20 THEN 20 ELSE ld
    IN  IF clamped <= 10 THEN "#34d399"
        ELSE IF clamped <= 15 THEN "#f59e0b" ELSE "#ef4444"

\* _update_ui: the window after the call, for the controller `a`, the label
\* `st` (self.state) and the sample `ld` (self.load).  The status texts are
\* written first; reading self.load when it has not been assigned raises
\* AttributeError (neither AGCMissionConsole nor the Tk interpreter object
\* has an attribute `load`), which ends the call before the bar, the blink
\* state and the task rows are touched.
_update_ui(g, a, st, ld) ==
    LET texts == [g EXCEPT !.cycle_var = a.cycle,
                           !.state_var = StateText(st),
                           !.alert_var = IF st = "OVERLOAD"
                                         THEN "1201/1202-like Executive Overflow"
                                         ELSE ""]
    IN  IF ld = NoLoad
        THEN [texts EXCEPT !.raised = TRUE]
        ELSE [texts EXCEPT
                 !.load_fill = LoadFill(ld),
                 !.last_blink_state = ~@,
                 !.stat = [n \in TaskNames |->
                              IF a.tasks[n].active THEN "ACTIVE" ELSE "SUSPENDED"]]

\* The console as a whole: the controller, self.load, self.state, the window.
\* _tick on the sample `ld` its _update_logic draws.
_tick(con, ld) ==
    IF ~con.agc.running
    THEN con
    ELSE LET r == _update_logic(con.agc, ld)
             g == _update_ui(con.gui, r.agc, r.state, r.load)
         IN  [agc   |-> r.agc,
              load  |-> r.load,
              state |-> r.state,
              gui   |-> [g EXCEPT !.pending = @ + 1]]

start(con, ld) ==
    IF ~con.agc.running
    THEN _tick([con EXCEPT !.agc.running = TRUE], ld)
    ELSE con

stop(con) == [con EXCEPT !.agc.running = FALSE]

----------------------------------------------------------------------------
(* apollo_agc_v1.py: AGCSystem *)

AGCSystem_init_v1 ==
    [tasks      |-> [n \in TaskNames |-> [priority |-> TaskPriority[n], active |-> TRUE]],
     error_flag |-> FALSE]

check_system_load_v1(self, ld) ==
    IF ld > OverloadThreshold
    THEN [self EXCEPT !.error_flag = TRUE]
    ELSE [self EXCEPT !.error_flag = FALSE]

recover_and_prioritize_v1(self) ==
    IF ~self.error_flag
    THEN self
    ELSE [self EXCEPT !.tasks =
             [n \in TaskNames |->
                 IF self.tasks[n].priority > CriticalThreshold
                 THEN [self.tasks[n] EXCEPT !.active = FALSE]
                 ELSE self.tasks[n]]]

\* One pass of the loop body of run_cycle.
run_cycle_v1(self, ld) == recover_and_prioritize_v1(check_system_load_v1(self, ld))

----------------------------------------------------------------------------
(* apollo_agc_v2.py: AGCSystem *)

AGCSystem_init_v2 ==
    [tasks          |-> [n \in TaskNames |-> [priority |-> TaskPriority[n], active |-> TRUE]],
     error_flag     |-> FALSE,
     overload_count |-> 0]

check_system_load_v2(self, ld) ==
    IF ld > OverloadThreshold
    THEN [self EXCEPT !.error_flag = TRUE, !.overload_count = @ + 1]
    ELSE [self EXCEPT !.error_flag = FALSE,
                      !.overload_count = IF @ > 0 THEN @ - 1 ELSE @]

resume_tasks_v2(self) ==
    [self EXCEPT !.tasks =
        [n \in TaskNames |->
            IF ~self.tasks[n].active
            THEN [self.tasks[n] EXCEPT !.active = TRUE]
            ELSE self.tasks[n]]]

recover_and_prioritize_v2(self) ==
    IF ~self.error_flag
    THEN IF self.overload_count = 0 THEN resume_tasks_v2(self) ELSE self
    ELSE [self EXCEPT !.tasks =
             [n \in TaskNames |->
                 IF self.tasks[n].priority > CriticalThreshold /\ self.tasks[n].active
                 THEN [self.tasks[n] EXCEPT !.active = FALSE]
                 ELSE self.tasks[n]]]

\* One pass of the loop body of run_cycle.
run_cycle_v2(self, ld) == recover_and_prioritize_v2(check_system_load_v2(self, ld))

----------------------------------------------------------------------------
(* apollo_agc_v3.py: AGCSystem *)

AGCSystem_init_v3 ==
    [tasks          |-> [n \in TaskNames |-> [priority |-> TaskPriority[n], active |-> TRUE]],
     error_flag     |-> FALSE,
     overload_count |-> 0,
     cycle          |-> 0,
     state          |-> Unset]

check_system_load_v3(self, ld) ==
    IF ld > OverloadThreshold
    THEN [self EXCEPT !.error_flag = TRUE, !.overload_count = @ + 1]
    ELSE [self EXCEPT !.error_flag = FALSE,
                      !.overload_count = IF @ > 0 THEN @ - 1 ELSE @]

resume_tasks_v3(self) ==
    [self EXCEPT !.tasks =
        [n \in TaskNames |-> [self.tasks[n] EXCEPT !.active = TRUE]]]

\* The object after the call and the returned label.
recover_and_prioritize_v3(self) ==
    IF ~self.error_flag
    THEN [self |-> IF self.overload_count = 0 THEN resume_tasks_v3(self) ELSE self,
          ret  |-> "STABLE"]
    ELSE [self |-> [self EXCEPT !.tasks =
                       [n \in TaskNames |->
                           IF self.tasks[n].priority > CriticalThreshold
                           THEN [self.tasks[n] EXCEPT !.active = FALSE]
                           ELSE [self.tasks[n] EXCEPT !.active = TRUE]]],
          ret  |-> "OVERLOAD"]

\* render_dashboard(load, state): counts the cycle; the label it was handed
\* is kept in the field `state` of the model's record (the local `state` of
\* run_cycle).
render_dashboard_v3(self, ld, st) ==
    [self EXCEPT !.cycle = @ + 1, !.state = st]

\* One pass of the loop body of run_cycle.
run_cycle_v3(self, ld) ==
    LET result == recover_and_prioritize_v3(check_system_load_v3(self, ld))
    IN  render_dashboard_v3(result.self, ld, result.ret)

----------------------------------------------------------------------------
(* Observers *)

\* The names of the active tasks of a task table.
ActiveTasks(tasks) == {n \in TaskNames : tasks[n].active}

CriticalTasks   == {n \in TaskNames : TaskPriority[n] <= CriticalThreshold}
DegradableTasks == {n \in TaskNames : TaskPriority[n] > CriticalThreshold}

\* What a cycle of the console controller leaves behind.
CycleResult(r) ==
    [cycle          |-> r.agc.cycle,
     load           |-> r.load,
     state          |-> r.state,
     overload_count |-> r.agc.overload_count,
     active         |-> ActiveTasks(r.agc.tasks)]

----------------------------------------------------------------------------
(* The controllers driven cycle by cycle *)

Init ==
    /\ agc    = AGCSystem_init
    /\ load   = NoLoad
    /\ state  = Unset
    /\ agc_v1 = AGCSystem_init_v1
    /\ agc_v2 = AGCSystem_init_v2
    /\ agc_v3 = AGCSystem_init_v3
    /\ trace  = <<>>
    /\ calm   = FALSE
    /\ twin   = [agc |-> AGCSystem_init, load |-> NoLoad, state |-> Unset]
    /\ gui    = AGCMissionConsole_init

\* One control cycle of the four controllers on the sample `ld`: the console's
\* _update_logic and one pass of each batch script's run_cycle loop.
Step(ld) ==
    /\ LET r == _update_logic(agc, ld)
       IN  /\ agc'   = r.agc
           /\ load'  = r.load
           /\ state' = r.state
    /\ agc_v1' = run_cycle_v1(agc_v1, ld)
    /\ agc_v2' = run_cycle_v2(agc_v2, ld)
    /\ agc_v3' = run_cycle_v3(agc_v3, ld)

\* A cycle on any sample, observed.
Cycle(ld) ==
    /\ agc.cycle < MaxCycle
    /\ Step(ld)
    /\ trace' = Append(trace, CycleResult(_update_logic(agc, ld)))
    /\ UNCHANGED <<calm, twin, gui>>

Next == \E ld \in LoadSamples : Cycle(ld)

Spec == Init /\ [][Next]_vars

----------------------------------------------------------------------------
(* A load source that settles: any samples at first, then only samples     *)
(* <= 1.0.  The tick timer re-arms itself after every cycle               *)
(* (agc_console.py, _tick), so cycles keep being driven: weak fairness of  *)
(* the calm cycles.                                                        *)

NoisyCycle(ld) ==
    /\ ~calm
    /\ agc.cycle < MaxCycle
    /\ Step(ld)
    /\ UNCHANGED <<trace, calm, twin, gui>>

Settle ==
    /\ ~calm
    /\ calm' = TRUE
    /\ UNCHANGED <<agc, load, state, agc_v1, agc_v2, agc_v3, trace, twin, gui>>

CalmCycle(ld) ==
    /\ calm
    /\ ld <= OverloadThreshold
    /\ agc.cycle < MaxCycle + MaxCalm
    /\ Step(ld)
    /\ UNCHANGED <<trace, calm, twin, gui>>

CalmCycles == \E ld \in LoadSamples : CalmCycle(ld)

NextHeal ==
    \/ \E ld \in LoadSamples : NoisyCycle(ld)
    \/ Settle
    \/ CalmCycles

SpecHeal == Init /\ [][NextHeal]_vars /\ WF_vars(CalmCycles)

----------------------------------------------------------------------------
(* Two runs of the console controller from the fresh state, fed samples    *)
(* that agree, cycle by cycle, on being > 1.0 and may differ in value.     *)

SameSide(ld1, ld2) == (ld1 > OverloadThreshold) <=> (ld2 > OverloadThreshold)

TwinCycle(ld1, ld2) ==
    /\ agc.cycle < MaxCycle
    /\ SameSide(ld1, ld2)
    /\ LET r == _update_logic(agc, ld1)
       IN  /\ agc'   = r.agc
           /\ load'  = r.load
           /\ state' = r.state
    /\ twin' = _update_logic(twin.agc, ld2)
    /\ UNCHANGED <<agc_v1, agc_v2, agc_v3, trace, calm, gui>>

NextTwin == \E ld1 \in LoadSamples : \E ld2 \in LoadSamples : TwinCycle(ld1, ld2)

SpecTwin == Init /\ [][NextTwin]_vars

----------------------------------------------------------------------------
(* The console window: construction, the Start and Stop buttons, the timer *)

Console == [agc |-> agc, load |-> load, state |-> state, gui |-> gui]

SetConsole(con) ==
    /\ agc'   = con.agc
    /\ load'  = con.load
    /\ state' = con.state
    /\ gui'   = con.gui
    /\ UNCHANGED <<agc_v1, agc_v2, agc_v3, trace, calm, twin>>

\* The end of AGCMissionConsole.__init__: _update_ui(initial=True), before
\* any _update_logic.  The call raises AttributeError out of the constructor.
Construct ==
    /\ gui.pc = "init"
    /\ LET g == _update_ui(gui, agc, state, load)
       IN  gui' = [g EXCEPT !.pc = IF g.raised THEN "raised" ELSE "mainloop"]
    /\ UNCHANGED <<agc, load, state, agc_v1, agc_v2, agc_v3, trace, calm, twin>>

\* main() lets the exception of the constructor end the program.  A caller
\* that handles it is left with the window _build_ui has built, its buttons
\* bound to start and stop, and may run its event loop.
RunMainloop ==
    /\ gui.pc = "raised"
    /\ gui' = [gui EXCEPT !.pc = "mainloop"]
    /\ UNCHANGED <<agc, load, state, agc_v1, agc_v2, agc_v3, trace, calm, twin>>

\* The Start button (or the call of start in main).
Start(ld) ==
    /\ gui.pc = "mainloop"
    /\ agc.running \/ (agc.cycle < MaxCycle /\ gui.pending < MaxPending)
    /\ SetConsole(start(Console, ld))

\* The Stop button.
Stop ==
    /\ gui.pc = "mainloop"
    /\ SetConsole(stop(Console))

\* A callback scheduled by self.after(self.refresh_ms, self._tick) comes due.
TimerFire(ld) ==
    /\ gui.pc = "mainloop"
    /\ gui.pending > 0
    /\ agc.running => agc.cycle < MaxCycle
    /\ SetConsole(_tick([Console EXCEPT !.gui.pending = @ - 1], ld))

NextGUI ==
    \/ Construct
    \/ RunMainloop
    \/ \E ld \in LoadSamples : Start(ld)
    \/ Stop
    \/ \E ld \in LoadSamples : TimerFire(ld)

SpecGUI == Init /\ [][NextGUI]_vars

----------------------------------------------------------------------------
(* Properties *)

AllActive(tasks) == ActiveTasks(tasks) = TaskNames

\* The active tasks before cycle i of the trace (i in 1..Len(trace)).
ActiveBefore(i) ==
    IF i = 1 THEN ActiveTasks(AGCSystem_init.tasks) ELSE trace[i - 1].active

\* The counter before cycle i of the trace.
CountBefore(i) ==
    IF i = 1 THEN AGCSystem_init.overload_count ELSE trace[i - 1].overload_count

\* C1. Critical preservation: in every reachable state of the console
\* controller and of the v2 controller, every task of priority <= 2 is active.
C1_CriticalPreservation ==
    \A n \in TaskNames :
        /\ agc.tasks[n].priority <= CriticalThreshold => agc.tasks[n].active
        /\ agc_v2.tasks[n].priority <= CriticalThreshold => agc_v2.tasks[n].active

\* C1 witness: a second overloaded cycle in a row, with the degradable tasks
\* suspended and the critical ones still active.
C1_Witness ==
    /\ state = "OVERLOAD"
    /\ agc.overload_count >= 2
    /\ ActiveTasks(agc.tasks) = CriticalTasks
    /\ ActiveTasks(agc_v2.tasks) = CriticalTasks

\* C2. Full resume condition: after every cycle of the console controller the
\* returned label is STABLE exactly when the cycle's sample is <= 1.0 and
\* overload_count is 0 after the counter update, and then all tasks are active.
C2_FullResume ==
    state # Unset =>
        /\ (state = "STABLE") <=> (load <= OverloadThreshold /\ agc.overload_count = 0)
        /\ state = "STABLE" => AllActive(agc.tasks)

\* C2 witness: a STABLE cycle that follows a cycle that was not STABLE.
C2_Witness ==
    /\ Len(trace) >= 2
    /\ trace[Len(trace) - 1].state # "STABLE"
    /\ state = "STABLE"
    /\ AllActive(agc.tasks)

\* C3 as stated. No premature resume: a cycle entered with overload_count > 0
\* whose sample is <= 1.0 leaves the active flag of every degradable task as
\* it was.
C3_Original ==
    [][(agc.overload_count > 0 /\ load' <= OverloadThreshold) =>
          \A n \in DegradableTasks : agc'.tasks[n].active = agc.tasks[n].active]_vars

\* C3 amended. A cycle entered with overload_count > 1 whose sample is <= 1.0
\* (so that the counter is still > 0 after the update: a COOLDOWN cycle)
\* leaves the active flag of every degradable task as it was.
C3_NoPrematureResume ==
    [][(agc.overload_count > 1 /\ load' <= OverloadThreshold) =>
          \A n \in DegradableTasks : agc'.tasks[n].active = agc.tasks[n].active]_vars

\* C3 witness: a COOLDOWN cycle has run and the degradable tasks are still
\* suspended.
C3_Witness ==
    /\ state = "COOLDOWN"
    /\ load <= OverloadThreshold
    /\ agc.overload_count > 0
    /\ ActiveTasks(agc.tasks) = CriticalTasks

\* How one cycle on the sample `ld` may change the counter.
HysteresisStep(before, after, ld) ==
    IF ld > OverloadThreshold THEN after = before + 1
    ELSE IF before > 0 THEN after = before - 1
    ELSE after = 0

\* C4. Hysteresis counter: overload_count is never negative, and a cycle
\* changes it by +1 when the sample is > 1.0, by -1 when the sample is <= 1.0
\* and the counter was > 0, and leaves it at 0 otherwise (console and v2).
C4_HysteresisCounter ==
    /\ [](agc.overload_count >= 0 /\ agc_v2.overload_count >= 0)
    /\ [][/\ HysteresisStep(agc.overload_count, agc'.overload_count, load')
          /\ HysteresisStep(agc_v2.overload_count, agc_v2'.overload_count, load')]_vars

\* C4 witness: the counter has gone up to 2, come down, and a cycle with a
\* sample <= 1.0 has left it at 0.
C4_Witness ==
    /\ \E i \in 1..Len(trace) : trace[i].overload_count = 2
    /\ \E i \in 1..Len(trace) :
          /\ CountBefore(i) > 0
          /\ trace[i].load <= OverloadThreshold
          /\ trace[i].overload_count = CountBefore(i) - 1
    /\ \E i \in 1..Len(trace) :
          /\ CountBefore(i) = 0
          /\ trace[i].load <= OverloadThreshold
          /\ trace[i].overload_count = 0
    /\ agc_v2.overload_count = agc.overload_count

\* Task n is suspended after cycle i, active after cycle i + 1 and suspended
\* again after cycle i + 2.
Flaps(i, n) ==
    /\ i + 2 <= Len(trace)
    /\ n \notin trace[i].active
    /\ n \in trace[i + 1].active
    /\ n \notin trace[i + 2].active

\* C5 as stated. No oscillation: no degradable task is deactivated in one
\* cycle, resumed in the next and deactivated again in the cycle after.
C5_Original ==
    \A i \in 1..Len(trace) : \A n \in DegradableTasks :
        ~(n \in ActiveBefore(i) /\ Flaps(i, n))

\* C5 amended. A degradable task is not resumed while overload_count is > 0:
\* when an overloaded cycle leaves the counter at 2 or more, the next cycle,
\* if its sample is <= 1.0, leaves the degradable tasks suspended; a task is
\* suspended, resumed and suspended again in three successive cycles only
\* when the first of them left the counter at exactly 1.
C5_NoResumeUnderDebt ==
    /\ \A i \in 1..Len(trace) : \A n \in DegradableTasks :
          Flaps(i, n) => trace[i].overload_count = 1
    /\ \A i \in 1..(Len(trace) - 1) :
          (/\ trace[i].load > OverloadThreshold
           /\ trace[i].overload_count >= 2
           /\ trace[i + 1].load <= OverloadThreshold)
          => trace[i + 1].active = CriticalTasks

\* C5 witness: a task has been suspended, resumed and suspended again by
\* alternating samples, and later a sample <= 1.0 that met a counter of 2
\* has left it suspended.
C5_Witness ==
    /\ \E i \in 1..Len(trace) : Flaps(i, "telemetry")
    /\ \E i \in 1..(Len(trace) - 1) :
          /\ trace[i].load > OverloadThreshold
          /\ trace[i].overload_count >= 2
          /\ trace[i + 1].load <= OverloadThreshold
          /\ "telemetry" \notin trace[i + 1].active

\* The samples of Scenario D: 1.5, 1.5, 0.5, 0.5, 0.5.
ScenarioD == <<15, 15, 5, 5, 5>>

FedScenarioD ==
    /\ Len(trace) >= Len(ScenarioD)
    /\ \A i \in 1..Len(ScenarioD) : trace[i].load = ScenarioD[i]

\* C6 as stated. Scenario D: the counter after the five cycles is 1, 2, 1, 0,
\* 0, cycle 4 is STABLE, the degradable tasks are inactive after each of the
\* first four cycles and active from the cycle where the counter first
\* reaches 0.
C6_Original ==
    FedScenarioD =>
        /\ [i \in 1..5 |-> trace[i].overload_count] = <<1, 2, 1, 0, 0>>
        /\ trace[4].state = "STABLE"
        /\ \A i \in 1..4 : trace[i].active \cap DegradableTasks = {}
        /\ \A i \in 4..5 : DegradableTasks \subseteq trace[i].active

\* C6 amended. Scenario D: the counter after the five cycles is 1, 2, 1, 0, 0,
\* cycle 4 is STABLE, the degradable tasks are inactive after each of the
\* first three cycles and active from cycle 4, where the counter first
\* reaches 0.
C6_ScenarioD ==
    FedScenarioD =>
        /\ [i \in 1..5 |-> trace[i].overload_count] = <<1, 2, 1, 0, 0>>
        /\ [i \in 1..5 |-> trace[i].state] =
               <<"OVERLOAD", "OVERLOAD", "COOLDOWN", "STABLE", "STABLE">>
        /\ \A i \in 1..3 : trace[i].active = CriticalTasks
        /\ \A i \in 4..5 : trace[i].active = TaskNames

\* C6 witness: the five samples of Scenario D have been fed to a fresh
\* controller.
C6_Witness ==
    /\ FedScenarioD
    /\ agc.cycle = 5
    /\ agc.overload_count = 0

\* The console and v2 controllers have fully recovered.
Healed ==
    /\ state = "STABLE"
    /\ agc.overload_count = 0
    /\ AllActive(agc.tasks)
    /\ agc_v2.overload_count = 0
    /\ AllActive(agc_v2.tasks)

\* C7. Self-healing: once the load source supplies only samples <= 1.0 and
\* cycles keep being driven, the controller reaches a STABLE cycle with
\* overload_count 0 and all tasks active, and stays so (console and v2).
C7_SelfHealing == calm ~> []Healed

\* C7 witness: the source has settled with overload debt left, a cycle of
\* the calm phase has run and the counter is still draining.
C7_Witness ==
    /\ calm
    /\ agc.cycle > MaxCycle
    /\ state = "COOLDOWN"
    /\ agc.overload_count >= 2
    /\ ActiveTasks(agc.tasks) = CriticalTasks

\* C8. Idempotent re-assertion: a cycle with a sample > 1.0 that follows a
\* cycle with a sample > 1.0 leaves the set of active tasks as it was,
\* exactly the tasks of priority <= 2 (console and v3).
C8_IdempotentReassertion ==
    [][(/\ Len(trace) >= 1
        /\ trace[Len(trace)].load > OverloadThreshold
        /\ load' > OverloadThreshold)
       => /\ ActiveTasks(agc'.tasks) = ActiveTasks(agc.tasks)
          /\ ActiveTasks(agc'.tasks) = CriticalTasks
          /\ ActiveTasks(agc_v3'.tasks) = ActiveTasks(agc_v3.tasks)
          /\ ActiveTasks(agc_v3'.tasks) = CriticalTasks]_vars

\* C8 witness: three overloaded cycles in a row have run.
C8_Witness ==
    /\ Len(trace) >= 3
    /\ \A i \in (Len(trace) - 2)..Len(trace) :
          /\ trace[i].load > OverloadThreshold
          /\ trace[i].active = CriticalTasks
    /\ ActiveTasks(agc_v3.tasks) = CriticalTasks

\* C9. Activation invariant: an active task has priority <= 2, or
\* overload_count is 0 and the state is STABLE (no cycle run yet counts as
\* STABLE).
C9_ActivationInvariant ==
    \A n \in TaskNames :
        agc.tasks[n].active =>
            \/ agc.tasks[n].priority <= CriticalThreshold
            \/ (agc.overload_count = 0 /\ state \in {"STABLE", Unset})

\* C9 witness: a degradable task that was suspended is active again, in a
\* STABLE cycle with the counter at 0.
C9_Witness ==
    /\ \E i \in 1..Len(trace) : "camera_recording" \notin trace[i].active
    /\ agc.tasks["camera_recording"].active
    /\ state = "STABLE"
    /\ agc.overload_count = 0

\* C10. Scenarios A, B, C: from a fresh controller a cycle on 1.5 gives
\* overload_count 1, OVERLOAD, priorities 1-2 active and 3-4 inactive; a
\* following cycle on 0.8 or 0.9 gives overload_count 0, STABLE, all active.
\* In general an overloaded cycle entered with overload_count 0 and followed
\* by a non-overloaded cycle ends STABLE with every task active.
C10_ScenariosABC ==
    /\ (Len(trace) >= 1 /\ trace[1].load = 15) =>
          /\ trace[1].overload_count = 1
          /\ trace[1].state = "OVERLOAD"
          /\ trace[1].active = CriticalTasks
    /\ (Len(trace) >= 2 /\ trace[1].load = 15 /\ trace[2].load \in {8, 9}) =>
          /\ trace[2].overload_count = 0
          /\ trace[2].state = "STABLE"
          /\ trace[2].active = TaskNames
    /\ \A i \in 1..(Len(trace) - 1) :
          (/\ CountBefore(i) = 0
           /\ trace[i].load > OverloadThreshold
           /\ trace[i + 1].load <= OverloadThreshold)
          => /\ trace[i + 1].overload_count = 0
             /\ trace[i + 1].state = "STABLE"
             /\ trace[i + 1].active = TaskNames

\* C10 witness: Scenarios A and B have run (1.5 then 0.8), and then once
\* more an overloaded cycle followed by a non-overloaded one.
C10_Witness ==
    /\ Len(trace) >= 4
    /\ trace[1].load = 15
    /\ trace[2].load = 8
    /\ trace[3].load > OverloadThreshold
    /\ trace[4].load = 9
    /\ state = "STABLE"
    /\ AllActive(agc.tasks)

\* C11 as stated. One controller: fed the same samples from their initial
\* states, v1, v2, v3 and the console have the same active tasks after every
\* cycle.
C11_OneController ==
    /\ ActiveTasks(agc_v1.tasks) = ActiveTasks(agc.tasks)
    /\ ActiveTasks(agc_v2.tasks) = ActiveTasks(agc.tasks)
    /\ ActiveTasks(agc_v3.tasks) = ActiveTasks(agc.tasks)

\* C11, what the variants do share: v2, v3 and the console have the same
\* active tasks and the same counter after every cycle, and v1 has suspended
\* the degradable tasks for good once a sample was > 1.0.
C11_LaterVariantsAgree ==
    /\ ActiveTasks(agc_v2.tasks) = ActiveTasks(agc.tasks)
    /\ ActiveTasks(agc_v3.tasks) = ActiveTasks(agc.tasks)
    /\ agc_v2.overload_count = agc.overload_count
    /\ agc_v3.overload_count = agc.overload_count
    /\ ActiveTasks(agc_v1.tasks) =
          IF \E i \in 1..Len(trace) : trace[i].load > OverloadThreshold
          THEN CriticalTasks ELSE TaskNames

\* Cycles i .. i + k - 1 of the trace are overloaded and entered with the
\* counter at 0, and the j cycles after them are not overloaded.
Drain(i, k, j) ==
    /\ k >= 1
    /\ i + k + j - 1 <= Len(trace)
    /\ CountBefore(i) = 0
    /\ \A c \in i..(i + k - 1) : trace[c].load > OverloadThreshold
    /\ \A c \in (i + k)..(i + k + j - 1) : trace[c].load <= OverloadThreshold

\* C12. Drain length: after k >= 1 overloaded cycles entered with the counter
\* at 0, the degradable tasks stay suspended during the first k - 1
\* non-overloaded cycles (COOLDOWN) and are active after the k-th (STABLE,
\* counter 0); and a degradable task goes from suspended to active only in a
\* cycle that ends with the counter at 0.
C12_DrainLength ==
    /\ \A i \in 1..Len(trace) : \A k \in 1..Len(trace) : \A j \in 1..k :
          Drain(i, k, j) =>
              LET r == trace[i + k + j - 1]
              IN  IF j < k
                  THEN /\ r.state = "COOLDOWN"
                       /\ r.overload_count = k - j
                       /\ r.active = CriticalTasks
                  ELSE /\ r.state = "STABLE"
                       /\ r.overload_count = 0
                       /\ r.active = TaskNames
    /\ \A i \in 1..Len(trace) : \A n \in DegradableTasks :
          (n \notin ActiveBefore(i) /\ n \in trace[i].active)
              => trace[i].overload_count = 0

\* C12 witness: two overloaded cycles entered with the counter at 0 and two
\* non-overloaded cycles after them; the first was COOLDOWN, the second has
\* resumed the tasks.
C12_Witness ==
    /\ \E i \in 1..Len(trace) : Drain(i, 2, 2)
    /\ Len(trace) >= 4
    /\ trace[Len(trace) - 1].state = "COOLDOWN"
    /\ state = "STABLE"
    /\ AllActive(agc.tasks)

\* C13 as stated. v3 state reporting: when recover_and_prioritize of v3 has
\* returned STABLE, overload_count is 0 and all tasks are active (so a
\* non-overloaded cycle that ends with overload_count > 0 is not STABLE).
C13_V3StableMeansDrained ==
    agc_v3.state = "STABLE" =>
        /\ agc_v3.overload_count = 0
        /\ AllActive(agc_v3.tasks)

\* C14. Load magnitude does not leak: two runs from the same state whose
\* samples agree, cycle by cycle, on being > 1.0 have the same overload_count,
\* the same label and the same task table after every cycle.
C14_MagnitudeDoesNotLeak ==
    /\ twin.agc.overload_count = agc.overload_count
    /\ twin.state = state
    /\ twin.agc.tasks = agc.tasks

\* C14 witness: the two runs have met samples of different value, one of
\* them above 2.0, on the same side of 1.0, with the counter at 2 or more.
C14_Witness ==
    /\ load = 25
    /\ twin.load = 12
    /\ agc.overload_count >= 2
    /\ twin.agc.overload_count >= 2
    /\ state = "OVERLOAD"

\* Some task active before the step is suspended after it.
Deactivates == ~(ActiveTasks(agc.tasks) \subseteq ActiveTasks(agc'.tasks))

\* C15. Strict threshold: a cycle on the sample 1.0 does not increment
\* overload_count, does not yield OVERLOAD and deactivates no task; a cycle
\* that does any of these has a sample > 1.0.
C15_StrictThreshold ==
    [][/\ load' = OverloadThreshold =>
             /\ agc'.overload_count <= agc.overload_count
             /\ state' # "OVERLOAD"
             /\ ~Deactivates
       /\ (\/ agc'.overload_count > agc.overload_count
           \/ state' = "OVERLOAD"
           \/ Deactivates)
          => load' > OverloadThreshold]_vars

\* C15 witness: a cycle on exactly 1.0 has followed an overloaded cycle that
\* left the counter at 2, and has decremented it.
C15_Witness ==
    /\ Len(trace) >= 2
    /\ trace[Len(trace) - 1].load > OverloadThreshold
    /\ trace[Len(trace) - 1].overload_count = 2
    /\ load = OverloadThreshold
    /\ agc.overload_count = 1
    /\ state = "COOLDOWN"

\* C16. Frame conditions: a cycle keeps the task roster and every priority;
\* a COOLDOWN cycle keeps every active flag; of the fields of the controller
\* a cycle changes only cycle, overload_count, error_flag and the tasks'
\* active and blink flags.
C16_Frame ==
    [][/\ DOMAIN agc'.tasks = DOMAIN agc.tasks
       /\ \A n \in DOMAIN agc.tasks :
             /\ agc'.tasks[n].priority = agc.tasks[n].priority
             /\ DOMAIN agc'.tasks[n] = DOMAIN agc.tasks[n]
       /\ state' = "COOLDOWN" =>
             \A n \in DOMAIN agc.tasks : agc'.tasks[n].active = agc.tasks[n].active
       /\ DOMAIN agc' = DOMAIN agc
       /\ agc'.running = agc.running]_vars

\* C16 witness: overloaded cycles and then a COOLDOWN cycle have run; the
\* roster and the priorities are those of the constructor, the suspended
\* tasks still suspended and blinking.
C16_Witness ==
    /\ state = "COOLDOWN"
    /\ Len(trace) >= 3
    /\ DOMAIN agc.tasks = TaskNames
    /\ \A n \in TaskNames : agc.tasks[n].priority = TaskPriority[n]
    /\ \A n \in DegradableTasks : ~agc.tasks[n].active /\ agc.tasks[n].blink

\* C17. Cycle counting: a fresh controller has cycle 0, overload_count 0 and
\* all tasks active; every evaluated cycle increments cycle by exactly 1, so
\* after n evaluations cycle is n (console, and v3's render_dashboard).
C17_CycleCounting ==
    /\ [](/\ agc.cycle = Len(trace)
          /\ agc_v3.cycle = Len(trace)
          /\ Len(trace) = 0 =>
                /\ agc.overload_count = 0
                /\ AllActive(agc.tasks))
    /\ [][agc'.cycle = agc.cycle + 1 /\ agc_v3'.cycle = agc_v3.cycle + 1]_vars

\* C17 witness: four cycles have been evaluated and counted.
C17_Witness ==
    /\ Len(trace) = 4
    /\ agc.cycle = 4
    /\ agc_v3.cycle = 4

\* C18. The set of active tasks takes one of two values, decided by the
\* counter: all four tasks exactly when overload_count = 0, the critical
\* tasks alone exactly when overload_count > 0 (console and v2).
C18_TwoActiveSets ==
    /\ AllActive(agc.tasks) <=> agc.overload_count = 0
    /\ ActiveTasks(agc.tasks) = CriticalTasks <=> agc.overload_count > 0
    /\ AllActive(agc_v2.tasks) <=> agc_v2.overload_count = 0
    /\ ActiveTasks(agc_v2.tasks) = CriticalTasks <=> agc_v2.overload_count > 0

\* C18 witness: the counter has been at 2 with the critical tasks alone
\* active and is back at 0 with all four active.
C18_Witness ==
    /\ \E i \in 1..Len(trace) :
          trace[i].overload_count = 2 /\ trace[i].active = CriticalTasks
    /\ agc.overload_count = 0
    /\ AllActive(agc.tasks)
    /\ AllActive(agc_v2.tasks)

C20_UiAfterLogic ==
    gui.state_var # "State: INIT" =>
        /\ agc.cycle >= 1
        /\ load # NoLoad
        /\ state # Unset

====
